---- MODULE Spec2Model ----
(***************************************************************************)
(* Model of src/src/utils/config.py: the typed configuration tree, its     *)
(* dictionary codec (to_dict / from_dict), the file codec (save_config /   *)
(* load_config, YAML and JSON), validate_config and merge_configs.         *)
(*                                                                         *)
(* Python values are tagged records.  Lists and dicts are objects on a     *)
(* heap and are held by reference, as in Python, so that sharing and       *)
(* in-place mutation are visible.  Floats are exact rationals n/d.         *)
(***************************************************************************)
EXTENDS Integers, Sequences, FiniteSets, TLC

VARIABLES heap, base, overrides, fs, last

vars == <<heap, base, overrides, fs, last>>

-----------------------------------------------------------------------------
(* Python values *)

None == [t |-> "none"]

PyInt(n) == [t |-> "int", i |-> n]

PyFloat(n, d) == [t |-> "float", n |-> n, d |-> d]

Inf == [t |-> "inf"]

PyBool(b) == [t |-> "bool", b |-> b]

\* the content of a string is a text: a word, or the digits of a numeral
Word(w) == [cls |-> "word", w |-> w]

Digits(n) == [cls |-> "digits", n |-> n]

Decimal(n, d) == [cls |-> "decimal", n |-> n, d |-> d]

PyStr(x) == [t |-> "str", s |-> x]

S(w) == PyStr(Word(w))

Member(name) == [t |-> "enum", name |-> name]

ListRef(a) == [t |-> "list", a |-> a]

DictRef(a) == [t |-> "dict", a |-> a]

\* an attribute that was never set on the object
Absent == [t |-> "absent"]

EmptyMap == <<>>

\* a function given by a rule, as the finished table of its values
Table(f) == f @@ <<>>

ListObj(items) == [kind |-> "list", items |-> Table(items)]

DictObj(m) == [kind |-> "dict", map |-> Table(m)]

NextAddr(h) == IF DOMAIN h = {} THEN 1
               ELSE (CHOOSE a \in DOMAIN h : \A b \in DOMAIN h : b <= a) + 1

Alloc(h, a, obj) == (a :> obj) @@ h

Put(m, k, v) == (k :> v) @@ m

\* outcomes of a call
Return(v) == [kind |-> "return", value |-> v]

Raise(exc, arg) == [kind |-> "raise", exc |-> exc, arg |-> arg]

-----------------------------------------------------------------------------
(* The schema: five sections and their fields *)

Sections == <<"network", "resources", "workload", "algorithm", "experiment">>

SectionNames == {Sections[i] : i \in 1..Len(Sections)}

NetworkConfig ==
  [fields |-> {"topology_type", "num_devices", "min_bandwidth",
               "max_bandwidth", "edge_probability", "seed"},
   defaults |-> [edge_probability |-> PyFloat(3, 10), seed |-> None]]

ResourceConfig ==
  [fields |-> {"memory_mu", "memory_sigma", "memory_min", "memory_max",
               "compute_mu", "compute_sigma", "compute_min", "compute_max",
               "seed"},
   defaults |-> [seed |-> None]]

WorkloadConfig ==
  [fields |-> {"model_type", "initial_sequence_lengths", "generation_steps",
               "precision_bytes", "seed"},
   defaults |-> [precision_bytes |-> PyInt(4), seed |-> None]]

AlgorithmConfig ==
  [fields |-> {"migration_threshold", "backtrack_limit",
               "cache_placement_strategy", "enable_dynamic_adjustment"},
   defaults |-> [migration_threshold |-> PyFloat(9, 10),
                 backtrack_limit |-> PyInt(100),
                 cache_placement_strategy |-> S("colocated"),
                 enable_dynamic_adjustment |-> PyBool(TRUE)]]

ExperimentConfig ==
  [fields |-> {"name", "description", "num_runs", "checkpoint_interval",
               "time_limit", "metrics_output_dir", "save_intermediate"},
   defaults |-> [num_runs |-> PyInt(1), checkpoint_interval |-> PyInt(10),
                 time_limit |-> Inf, metrics_output_dir |-> S("results"),
                 save_intermediate |-> PyBool(FALSE)]]

SimulationConfig ==
  [network |-> NetworkConfig, resources |-> ResourceConfig,
   workload |-> WorkloadConfig, algorithm |-> AlgorithmConfig,
   experiment |-> ExperimentConfig]

\* the members of the workload-model registry, by name
WorkloadType == {"SMALL", "MEDIUM", "LARGE"}

\* cls(**kwargs) of a dataclass: unexpected or missing keyword is a TypeError
Construct(cls, kwargs) ==
  IF ~(DOMAIN kwargs \subseteq cls.fields)
    THEN Raise("TypeError", S("unexpected keyword argument"))
  ELSE IF ~(cls.fields \subseteq (DOMAIN kwargs \cup DOMAIN cls.defaults))
    THEN Raise("TypeError", S("missing required argument"))
  ELSE Return(Table([f \in cls.fields |->
                 IF f \in DOMAIN kwargs THEN kwargs[f] ELSE cls.defaults[f]]))

-----------------------------------------------------------------------------
(* Dictionary codec *)

IsSection(x) == "t" \notin DOMAIN x

\* config.<s>.<f>: a missing attribute, or an attribute of None, is an
\* AttributeError, shown here as Absent
GetAttr(c, s, f) ==
  IF ~IsSection(c[s]) THEN Absent
  ELSE IF f \notin DOMAIN c[s] THEN Absent
  ELSE c[s][f]

\* variant: the network seed is left out of the tree
to_dictNoSeed(h, c) ==
  LET a0 == NextAddr(h)
      enc(s, f) == IF s = "workload" /\ f = "model_type"
                     THEN S(c[s][f].name)
                     ELSE c[s][f]
      sub(s) == DictObj([f \in SimulationConfig[s].fields
                              \ (IF s = "network" THEN {"seed"} ELSE {}) |->
                           enc(s, f)])
      root == DictObj([s \in SectionNames |->
                 DictRef(a0 + (CHOOSE i \in 1..Len(Sections) : Sections[i] = s) - 1)])
      h1 == Table([a \in DOMAIN h \cup (a0 .. a0 + Len(Sections)) |->
               IF a \in DOMAIN h THEN h[a]
               ELSE IF a = a0 + Len(Sections) THEN root
               ELSE sub(Sections[a - a0 + 1])])
  IN [h |-> h1, out |-> Return(DictRef(a0 + Len(Sections)))]

\* variant: model_type is encoded as the text of the member, not its name
to_dictMemberText(h, c) ==
  LET a0 == NextAddr(h)
      enc(s, f) == IF s = "workload" /\ f = "model_type"
                     THEN S("WorkloadType." \o c[s][f].name)
                     ELSE c[s][f]
      sub(s) == DictObj([f \in SimulationConfig[s].fields |-> enc(s, f)])
      root == DictObj([s \in SectionNames |->
                 DictRef(a0 + (CHOOSE i \in 1..Len(Sections) : Sections[i] = s) - 1)])
      h1 == Table([a \in DOMAIN h \cup (a0 .. a0 + Len(Sections)) |->
               IF a \in DOMAIN h THEN h[a]
               ELSE IF a = a0 + Len(Sections) THEN root
               ELSE sub(Sections[a - a0 + 1])])
  IN [h |-> h1, out |-> Return(DictRef(a0 + Len(Sections)))]

\* SimulationConfig.to_dict: six new dicts; the two workload lists are put in
\* by reference, model_type as its name
to_dict(h, c) ==
  LET a0 == NextAddr(h)
      bad == \E i \in 1..Len(Sections) :
               \E f \in SimulationConfig[Sections[i]].fields :
                 GetAttr(c, Sections[i], f) = Absent
      enc(s, f) == IF s = "workload" /\ f = "model_type"
                     THEN S(c[s][f].name)
                     ELSE c[s][f]
      sub(s) == DictObj([f \in SimulationConfig[s].fields |-> enc(s, f)])
      root == DictObj([s \in SectionNames |->
                 DictRef(a0 + (CHOOSE i \in 1..Len(Sections) : Sections[i] = s) - 1)])
      h1 == Table([a \in DOMAIN h \cup (a0 .. a0 + Len(Sections)) |->
               IF a \in DOMAIN h THEN h[a]
               ELSE IF a = a0 + Len(Sections) THEN root
               ELSE sub(Sections[a - a0 + 1])])
  IN IF bad \/ GetAttr(c, "workload", "model_type").t # "enum"
       THEN [h |-> h, out |-> Raise("AttributeError", None)]
       ELSE [h |-> h1, out |-> Return(DictRef(a0 + Len(Sections)))]

\* v[key] for a string key
Subscript(h, v, key) ==
  IF v.t # "dict" THEN Raise("TypeError", S("not subscriptable"))
  ELSE IF key \notin DOMAIN h[v.a].map THEN Raise("KeyError", S(key))
  ELSE Return(h[v.a].map[key])

\* WorkloadType[name]
WorkloadTypeLookup(name) ==
  IF name.t \in {"list", "dict"} THEN Raise("TypeError", S("unhashable type"))
  ELSE IF name.t = "str" /\ name.s.cls = "word" /\ name.s.w \in WorkloadType
    THEN Return(Member(name.s.w))
  ELSE Raise("KeyError", name)

\* cls(**config_dict[s])
FromSection(h, d, s) ==
  LET x == Subscript(h, d, s)
  IN IF x.kind = "raise" THEN x
     ELSE IF x.value.t # "dict"
       THEN Raise("TypeError", S("argument after ** must be a mapping"))
     ELSE Construct(SimulationConfig[s], h[x.value.a].map)

\* WorkloadConfig(model_type=WorkloadType[...], **{the other keys})
FromWorkload(h, d) ==
  LET x == Subscript(h, d, "workload")
  IN IF x.kind = "raise" THEN x
     ELSE LET n == Subscript(h, x.value, "model_type")
          IN IF n.kind = "raise" THEN n
             ELSE LET m == WorkloadTypeLookup(n.value)
                      w == h[x.value.a].map
                  IN IF m.kind = "raise" THEN m
                     ELSE Construct(WorkloadConfig,
                            Table([k \in DOMAIN w |->
                               IF k = "model_type" THEN m.value ELSE w[k]]))

\* SimulationConfig.from_dict: the sections are built in order and the first
\* failure propagates
from_dict(h, d) ==
  LET r == Table([s \in SectionNames |->
              IF s = "workload" THEN FromWorkload(h, d) ELSE FromSection(h, d, s)])
      failed == {i \in 1..Len(Sections) : r[Sections[i]].kind = "raise"}
  IN IF failed # {}
       THEN r[Sections[CHOOSE i \in failed : \A j \in failed : i <= j]]
       ELSE Return(Table([s \in SectionNames |-> r[s].value]))

ListVal(items) == [t |-> "listval", items |-> Table(items)]

DictVal(m) == [t |-> "dictval", map |-> Table(m)]

\* the value of a configuration with its lists read through the heap
ConfigValue(h, c) ==
  Table([s \in DOMAIN c |->
     IF ~IsSection(c[s]) THEN c[s]
     ELSE Table([f \in DOMAIN c[s] |->
             IF c[s][f].t = "list" THEN ListVal(h[c[s][f].a].items)
             ELSE c[s][f]])])

-----------------------------------------------------------------------------
(* Generic trees as values, and their place on the heap *)

RECURSIVE Snapshot(_, _)
\* the tree reachable from v, by value
Snapshot(h, v) ==
  IF v.t = "list" THEN ListVal(h[v.a].items)
  ELSE IF v.t = "dict"
    THEN DictVal([k \in DOMAIN h[v.a].map |-> Snapshot(h, h[v.a].map[k])])
  ELSE v

RECURSIVE Store(_, _)
RECURSIVE StoreEntries(_)
\* the entries of a mapping, stored one key after the other
StoreEntries(st) ==
  IF st.todo = {} THEN st
  ELSE LET k == CHOOSE x \in st.todo : TRUE
           r == Store(st.h, st.m[k])
       IN StoreEntries([h |-> r.h, m |-> st.m, todo |-> st.todo \ {k},
                        acc |-> Put(st.acc, k, r.v)])

\* the parser's result objects: new lists and dicts for the tree tv
Store(h, tv) ==
  IF tv.t = "listval"
    THEN [h |-> Alloc(h, NextAddr(h), ListObj(tv.items)),
          v |-> ListRef(NextAddr(h))]
  ELSE IF tv.t = "dictval"
    THEN LET r == StoreEntries([h |-> h, m |-> tv.map, todo |-> DOMAIN tv.map,
                                acc |-> EmptyMap])
         IN [h |-> Alloc(r.h, NextAddr(r.h), DictObj(r.acc)),
             v |-> DictRef(NextAddr(r.h))]
  ELSE [h |-> h, v |-> tv]

-----------------------------------------------------------------------------
(* Serialized documents: scalars are plain or quoted texts *)

Plain(x) == [n |-> "scalar", style |-> "plain", text |-> x]

Quoted(x) == [n |-> "scalar", style |-> "quoted", text |-> x]

SeqNode(items) == [n |-> "seq", items |-> Table(items)]

MapNode(m) == [n |-> "map", entries |-> Table(m)]

\* the file as open(path, 'w') leaves it before anything is written
EmptyFile == [n |-> "empty"]

Unserializable == [n |-> "unserializable"]

RECURSIVE HasUnserializable(_)
HasUnserializable(node) ==
  IF node.n = "unserializable" THEN TRUE
  ELSE IF node.n = "seq"
    THEN \E i \in 1..Len(node.items) : HasUnserializable(node.items[i])
  ELSE IF node.n = "map"
    THEN \E k \in DOMAIN node.entries : HasUnserializable(node.entries[k])
  ELSE FALSE

RECURSIVE json_dump(_)
\* json.dump(config_dict, f, indent=2)
json_dump(tv) ==
  IF tv.t = "none" THEN Plain(Word("null"))
  ELSE IF tv.t = "bool" THEN Plain(Word(IF tv.b THEN "true" ELSE "false"))
  ELSE IF tv.t = "int" THEN Plain(Digits(tv.i))
  ELSE IF tv.t = "float" THEN Plain(Decimal(tv.n, tv.d))
  ELSE IF tv.t = "inf" THEN Plain(Word("Infinity"))
  ELSE IF tv.t = "str" THEN Quoted(tv.s)
  ELSE IF tv.t = "listval"
    THEN SeqNode([i \in 1..Len(tv.items) |-> json_dump(tv.items[i])])
  ELSE IF tv.t = "dictval"
    THEN MapNode([k \in DOMAIN tv.map |-> json_dump(tv.map[k])])
  ELSE Unserializable

\* what the JSON parser makes of a document that is not JSON
Malformed == [t |-> "malformed"]

RECURSIVE json_load(_)
\* json.load(f)

json_load(node) ==
  IF node.n = "seq"
    THEN ListVal([i \in 1..Len(node.items) |-> json_load(node.items[i])])
  ELSE IF node.n = "map"
    THEN DictVal([k \in DOMAIN node.entries |-> json_load(node.entries[k])])
  ELSE IF node.n # "scalar" THEN Malformed
  ELSE IF node.style = "quoted" THEN PyStr(node.text)
  ELSE IF node.text.cls = "digits" THEN PyInt(node.text.n)
  ELSE IF node.text.cls = "decimal" THEN PyFloat(node.text.n, node.text.d)
  ELSE IF node.text.w = "null" THEN None
  ELSE IF node.text.w = "true" THEN PyBool(TRUE)
  ELSE IF node.text.w = "false" THEN PyBool(FALSE)
  ELSE IF node.text.w = "Infinity" THEN Inf
  ELSE Malformed

YamlNull == {"null", "Null", "NULL", "~", ""}

YamlTrue == {"yes", "Yes", "YES", "true", "True", "TRUE", "on", "On", "ON"}

YamlFalse == {"no", "No", "NO", "false", "False", "FALSE", "off", "Off", "OFF"}

YamlInf == {".inf", ".Inf", ".INF", "+.inf", "+.Inf", "+.INF"}

\* the implicit resolver of YAML 1.1: what a plain scalar is read as
YamlResolve(x) ==
  IF x.cls = "digits" THEN PyInt(x.n)
  ELSE IF x.cls = "decimal" THEN PyFloat(x.n, x.d)
  ELSE IF x.w \in YamlNull THEN None
  ELSE IF x.w \in YamlTrue THEN PyBool(TRUE)
  ELSE IF x.w \in YamlFalse THEN PyBool(FALSE)
  ELSE IF x.w \in YamlInf THEN Inf
  ELSE PyStr(x)

RECURSIVE yaml_safe_dump(_)
\* yaml.safe_dump(config_dict, f, default_flow_style=False): a string is
\* written plain only when the resolver reads the plain text as a string
yaml_safe_dump(tv) ==
  IF tv.t = "none" THEN Plain(Word("null"))
  ELSE IF tv.t = "bool" THEN Plain(Word(IF tv.b THEN "true" ELSE "false"))
  ELSE IF tv.t = "int" THEN Plain(Digits(tv.i))
  ELSE IF tv.t = "float" THEN Plain(Decimal(tv.n, tv.d))
  ELSE IF tv.t = "inf" THEN Plain(Word(".inf"))
  ELSE IF tv.t = "str"
    THEN IF YamlResolve(tv.s).t = "str" THEN Plain(tv.s) ELSE Quoted(tv.s)
  ELSE IF tv.t = "listval"
    THEN SeqNode([i \in 1..Len(tv.items) |-> yaml_safe_dump(tv.items[i])])
  ELSE IF tv.t = "dictval"
    THEN MapNode([k \in DOMAIN tv.map |-> yaml_safe_dump(tv.map[k])])
  ELSE Unserializable

RECURSIVE yaml_safe_load(_)
\* yaml.safe_load(f); an empty document is None
yaml_safe_load(node) ==
  IF node.n = "seq"
    THEN ListVal([i \in 1..Len(node.items) |-> yaml_safe_load(node.items[i])])
  ELSE IF node.n = "map"
    THEN DictVal([k \in DOMAIN node.entries |-> yaml_safe_load(node.entries[k])])
  ELSE IF node.n # "scalar" THEN None
  ELSE IF node.style = "quoted" THEN PyStr(node.text)
  ELSE YamlResolve(node.text)

-----------------------------------------------------------------------------
(* Configuration objects on the heap *)

ObjRef(a) == [t |-> "obj", a |-> a]

ConfigObj(c) == [kind |-> "config", attrs |-> Table(c)]

\* the instance that a successful from_dict constructs
New(h, out) ==
  IF out.kind = "raise" THEN [h |-> h, out |-> out]
  ELSE [h |-> Alloc(h, NextAddr(h), ConfigObj(out.value)),
        out |-> Return(ObjRef(NextAddr(h)))]

IsRef(v) == v.t \in {"list", "dict", "obj"}

Refs(obj) ==
  IF obj.kind = "dict"
    THEN {obj.map[k].a : k \in {x \in DOMAIN obj.map : IsRef(obj.map[x])}}
  ELSE IF obj.kind = "config"
    THEN UNION {{obj.attrs[s][f].a :
                   f \in {x \in DOMAIN obj.attrs[s] : IsRef(obj.attrs[s][x])}} :
                s \in {y \in DOMAIN obj.attrs : IsSection(obj.attrs[y])}}
  ELSE {}

RECURSIVE Reach(_, _)
Reach(h, as) ==
  LET more == as \cup UNION {Refs(h[a]) : a \in as}
  IN IF more = as THEN as ELSE Reach(h, more)

Restrict(h, as) == Table([a \in as \cap DOMAIN h |-> h[a]])

-----------------------------------------------------------------------------
(* File codec *)

Path(parent, stem, suffix) == [parent |-> parent, stem |-> stem, suffix |-> suffix]

UnsupportedFormat == Raise("ValueError", S("Configuration file must be .yaml or .json"))

\* variant: the JSON writer is used whatever the suffix
save_configAlwaysJson(h, f, c, p) ==
  LET d == to_dict(h, c)
      opened == [dirs |-> f.dirs \cup {p.parent},
                 files |-> Put(f.files, p, EmptyFile)]
      doc == json_dump(Snapshot(d.h, d.out.value))
  IN IF d.out.kind = "raise" THEN [fs |-> f, out |-> d.out]
     ELSE IF p.suffix = ".yaml" \/ p.suffix = ".json"
       THEN [fs |-> [opened EXCEPT !.files = Put(@, p, doc)], out |-> Return(None)]
     ELSE [fs |-> opened, out |-> UnsupportedFormat]

\* save_config: encode, make the parent directory, open the file for
\* writing (which creates or truncates it), then write by suffix
save_config(h, f, c, p) ==
  LET d == to_dict(h, c)
      opened == [dirs |-> f.dirs \cup {p.parent},
                 files |-> Put(f.files, p, EmptyFile)]
      tree == Snapshot(d.h, d.out.value)
      doc == IF p.suffix = ".yaml" THEN yaml_safe_dump(tree)
             ELSE json_dump(tree)
  IN IF d.out.kind = "raise" THEN [fs |-> f, out |-> d.out]
     ELSE IF p.suffix = ".yaml" \/ p.suffix = ".json"
       THEN IF HasUnserializable(doc)
              THEN [fs |-> opened, out |-> Raise("TypeError", S("not serializable"))]
              ELSE [fs |-> [opened EXCEPT !.files = Put(@, p, doc)],
                    out |-> Return(None)]
     ELSE [fs |-> opened, out |-> UnsupportedFormat]

\* variant: any suffix other than .json is read as YAML
load_configAnySuffix(h, f, p) ==
  LET tree == IF p.suffix = ".json" THEN json_load(f.files[p])
              ELSE yaml_safe_load(f.files[p])
      st == Store(h, tree)
  IN IF p \notin DOMAIN f.files
       THEN [h |-> h, out |-> Raise("FileNotFoundError", S("Configuration file not found"))]
     ELSE IF tree = Malformed
       THEN [h |-> h, out |-> Raise("JSONDecodeError", None)]
     ELSE New(st.h, from_dict(st.h, st.v))

\* load_config: existence, then parse by suffix, then from_dict
load_config(h, f, p) ==
  LET tree == IF p.suffix = ".yaml" THEN yaml_safe_load(f.files[p])
              ELSE json_load(f.files[p])
      st == Store(h, tree)
  IN IF p \notin DOMAIN f.files
       THEN [h |-> h, out |-> Raise("FileNotFoundError", S("Configuration file not found"))]
     ELSE IF p.suffix = ".yaml" \/ p.suffix = ".json"
       THEN IF tree = Malformed
              THEN [h |-> h, out |-> Raise("JSONDecodeError", None)]
              ELSE New(st.h, from_dict(st.h, st.v))
     ELSE [h |-> h, out |-> UnsupportedFormat]

-----------------------------------------------------------------------------
(* Validator.  A test is "T", "F" or "E" (it raised). *)

IsNum(v) == v.t \in {"int", "float", "inf", "bool"}

Numer(v) == IF v.t = "int" THEN v.i
            ELSE IF v.t = "float" THEN v.n
            ELSE IF v.b THEN 1 ELSE 0

Denom(v) == IF v.t = "float" THEN v.d ELSE 1

NumLe(a, b) == IF a.t = "inf" THEN b.t = "inf"
               ELSE IF b.t = "inf" THEN TRUE
               ELSE Numer(a) * Denom(b) <= Numer(b) * Denom(a)

\* a <= b
Le(a, b) == IF ~IsNum(a) \/ ~IsNum(b) THEN "E"
            ELSE IF NumLe(a, b) THEN "T" ELSE "F"

\* a > b
Gt(a, b) == IF ~IsNum(a) \/ ~IsNum(b) THEN "E"
            ELSE IF NumLe(a, b) THEN "F" ELSE "T"

Or3(a, b) == IF a = "F" THEN b ELSE a

And3(a, b) == IF a = "T" THEN b ELSE a

Not3(a) == IF a = "T" THEN "F" ELSE IF a = "F" THEN "T" ELSE "E"

\* not 0 <= x <= 1
OutsideUnit(x) == Not3(And3(Le(PyInt(0), x), Le(x, PyInt(1))))

RECURSIVE AnyLe0(_)
\* any(x <= 0 for x in xs), left to right
AnyLe0(xs) == IF xs = <<>> THEN "F"
              ELSE Or3(Le(Head(xs), PyInt(0)), AnyLe0(Tail(xs)))

\* bool(v)
Truthy(h, v) ==
  IF v = Absent THEN "E"
  ELSE IF v.t = "list" THEN (IF h[v.a].items # <<>> THEN "T" ELSE "F")
  ELSE IF v.t = "dict" THEN (IF DOMAIN h[v.a].map # {} THEN "T" ELSE "F")
  ELSE IF v.t = "none" THEN "F"
  ELSE IF v.t = "str" THEN (IF v.s # Word("") THEN "T" ELSE "F")
  ELSE IF v.t \in {"int", "float", "bool"} THEN (IF Numer(v) # 0 THEN "T" ELSE "F")
  ELSE "T"

\* any(x <= 0 for x in v): only a list of numbers can be walked through
AnyItemLe0(h, v) == IF v.t = "list" THEN AnyLe0(h[v.a].items) ELSE "E"

\* variant: the bandwidth range test rejects min == max
NetworkChecksStrict(c) ==
  <<Le(GetAttr(c, "network", "num_devices"), PyInt(0)),
    Or3(Le(GetAttr(c, "network", "min_bandwidth"), PyInt(0)),
        Le(GetAttr(c, "network", "max_bandwidth"), PyInt(0))),
    Le(GetAttr(c, "network", "max_bandwidth"),
       GetAttr(c, "network", "min_bandwidth")),
    OutsideUnit(GetAttr(c, "network", "edge_probability"))>>

NetworkChecks(c) ==
  <<Le(GetAttr(c, "network", "num_devices"), PyInt(0)),
    Or3(Le(GetAttr(c, "network", "min_bandwidth"), PyInt(0)),
        Le(GetAttr(c, "network", "max_bandwidth"), PyInt(0))),
    Gt(GetAttr(c, "network", "min_bandwidth"),
       GetAttr(c, "network", "max_bandwidth")),
    OutsideUnit(GetAttr(c, "network", "edge_probability"))>>

ResourceChecks(c) ==
  LET xs == <<GetAttr(c, "resources", "memory_min"),
              GetAttr(c, "resources", "memory_max"),
              GetAttr(c, "resources", "compute_min"),
              GetAttr(c, "resources", "compute_max")>>
  IN <<IF \E i \in 1..Len(xs) : xs[i] = Absent THEN "E" ELSE AnyLe0(xs),
       Gt(GetAttr(c, "resources", "memory_min"),
          GetAttr(c, "resources", "memory_max")),
       Gt(GetAttr(c, "resources", "compute_min"),
          GetAttr(c, "resources", "compute_max"))>>

WorkloadChecks(h, c) ==
  <<Not3(Truthy(h, GetAttr(c, "workload", "initial_sequence_lengths"))),
    Not3(Truthy(h, GetAttr(c, "workload", "generation_steps"))),
    AnyItemLe0(h, GetAttr(c, "workload", "initial_sequence_lengths")),
    AnyItemLe0(h, GetAttr(c, "workload", "generation_steps")),
    Le(GetAttr(c, "workload", "precision_bytes"), PyInt(0))>>

AlgorithmChecks(c) ==
  <<OutsideUnit(GetAttr(c, "algorithm", "migration_threshold")),
    Le(GetAttr(c, "algorithm", "backtrack_limit"), PyInt(0))>>

ExperimentChecks(c) ==
  <<Le(GetAttr(c, "experiment", "num_runs"), PyInt(0)),
    Le(GetAttr(c, "experiment", "checkpoint_interval"), PyInt(0)),
    Le(GetAttr(c, "experiment", "time_limit"), PyInt(0))>>

\* the body of the try block: the tests in order, return False at the first
\* that holds, raise at the first that raises
ValidateBody(h, c) ==
  LET tests == NetworkChecks(c) \o ResourceChecks(c) \o WorkloadChecks(h, c)
                 \o AlgorithmChecks(c) \o ExperimentChecks(c)
      hit == {i \in 1..Len(tests) : tests[i] # "F"}
      first == CHOOSE i \in hit : \A j \in hit : i <= j
  IN IF hit = {} THEN Return(PyBool(TRUE))
     ELSE IF tests[first] = "T" THEN Return(PyBool(FALSE))
     ELSE Raise("Exception", None)

\* variant: no handler around the tests
validate_configNoExcept(h, c) == ValidateBody(h, c)

\* validate_config: except Exception: return False
validate_config(h, c) ==
  LET r == ValidateBody(h, c)
  IN IF r.kind = "raise" THEN Return(PyBool(FALSE)) ELSE r

-----------------------------------------------------------------------------
(* Merge engine *)

RECURSIVE update_dict(_, _, _)
RECURSIVE UpdateItems(_, _, _, _)

\* variant: a list in the override is appended to the list in d1, in place
UpdateItemsExtend(h, d1, d2, keys) ==
  IF keys = {} THEN h
  ELSE LET k == CHOOSE x \in keys : TRUE
           v == h[d2].map[k]
           h1 == IF k \in DOMAIN h[d1].map /\ h[d1].map[k].t = "dict" /\ v.t = "dict"
                   THEN update_dict(h, h[d1].map[k].a, v.a)
                 ELSE IF k \in DOMAIN h[d1].map /\ h[d1].map[k].t = "list" /\ v.t = "list"
                   THEN [h EXCEPT ![h[d1].map[k].a].items = @ \o h[v.a].items]
                 ELSE [h EXCEPT ![d1].map = Put(@, k, v)]
       IN UpdateItems(h1, d1, d2, keys \ {k})

\* variant: a list in the override is joined to the list in d1 as a new list
UpdateItemsConcat(h, d1, d2, keys) ==
  IF keys = {} THEN h
  ELSE LET k == CHOOSE x \in keys : TRUE
           v == h[d2].map[k]
           h1 == IF k \in DOMAIN h[d1].map /\ h[d1].map[k].t = "dict" /\ v.t = "dict"
                   THEN update_dict(h, h[d1].map[k].a, v.a)
                 ELSE IF k \in DOMAIN h[d1].map /\ h[d1].map[k].t = "list" /\ v.t = "list"
                   THEN [Alloc(h, NextAddr(h),
                               ListObj(h[h[d1].map[k].a].items \o h[v.a].items))
                           EXCEPT ![d1].map = Put(@, k, ListRef(NextAddr(h)))]
                 ELSE [h EXCEPT ![d1].map = Put(@, k, v)]
       IN UpdateItems(h1, d1, d2, keys \ {k})

\* variant: the override value always replaces d1[k], nested dicts too
UpdateItemsShallow(h, d1, d2, keys) ==
  IF keys = {} THEN h
  ELSE LET k == CHOOSE x \in keys : TRUE
       IN UpdateItems([h EXCEPT ![d1].map = Put(@, k, h[d2].map[k])],
                      d1, d2, keys \ {k})

\* for k, v in d2.items(): merge into d1[k] when both are dicts, else d1[k] = v
UpdateItems(h, d1, d2, keys) ==
  IF keys = {} THEN h
  ELSE LET k == CHOOSE x \in keys : TRUE
           v == h[d2].map[k]
           h1 == IF k \in DOMAIN h[d1].map /\ h[d1].map[k].t = "dict" /\ v.t = "dict"
                   THEN update_dict(h, h[d1].map[k].a, v.a)
                   ELSE [h EXCEPT ![d1].map = Put(@, k, v)]
       IN UpdateItems(h1, d1, d2, keys \ {k})

\* update_dict changes d1 in place and returns it
update_dict(h, d1, d2) == UpdateItems(h, d1, d2, DOMAIN h[d2].map)

\* variant: the merged configuration is validated before it is returned
merge_configsValidated(h, c, o) ==
  LET d == to_dict(h, c)
      merged == update_dict(d.h, d.out.value.a, o.a)
      r == from_dict(merged, d.out.value)
  IN IF d.out.kind = "raise" THEN [h |-> h, out |-> d.out]
     ELSE IF r.kind = "return"
             /\ validate_config(merged, r.value) # Return(PyBool(TRUE))
       THEN [h |-> merged,
             out |-> Raise("ValueError", S("invalid configuration"))]
     ELSE New(merged, r)

\* merge_configs(base_config, override_config)
merge_configs(h, c, o) ==
  LET d == to_dict(h, c)
      merged == update_dict(d.h, d.out.value.a, o.a)
  IN IF d.out.kind = "raise" THEN [h |-> h, out |-> d.out]
     ELSE New(merged, from_dict(merged, d.out.value))

-----------------------------------------------------------------------------
(* Inputs *)

\* variant: the two bandwidth arguments of the default network exchanged
create_default_configSwapped ==
  [network |-> Construct(NetworkConfig,
                 [topology_type |-> S("edge_cluster"), num_devices |-> PyInt(8),
                  min_bandwidth |-> PyFloat(10, 1),
                  max_bandwidth |-> PyFloat(1, 1)]).value,
   resources |-> Construct(ResourceConfig,
                 [memory_mu |-> PyFloat(2, 1), memory_sigma |-> PyFloat(1, 2),
                  memory_min |-> PyFloat(1, 1), memory_max |-> PyFloat(16, 1),
                  compute_mu |-> PyFloat(5, 1), compute_sigma |-> PyFloat(1, 2),
                  compute_min |-> PyFloat(1, 1),
                  compute_max |-> PyFloat(32, 1)]).value,
   workload |-> Construct(WorkloadConfig,
                 [model_type |-> Member("SMALL"),
                  initial_sequence_lengths |->
                    ListVal(<<PyInt(128), PyInt(256), PyInt(512)>>),
                  generation_steps |->
                    ListVal(<<PyInt(32), PyInt(64), PyInt(128)>>)]).value,
   algorithm |-> Construct(AlgorithmConfig, EmptyMap).value,
   experiment |-> Construct(ExperimentConfig,
                 [name |-> S("default_experiment"),
                  description |-> S("Default experiment configuration")]).value]

\* create_default_config, with its two lists by value
create_default_config ==
  [network |-> Construct(NetworkConfig,
                 [topology_type |-> S("edge_cluster"), num_devices |-> PyInt(8),
                  min_bandwidth |-> PyFloat(1, 1),
                  max_bandwidth |-> PyFloat(10, 1)]).value,
   resources |-> Construct(ResourceConfig,
                 [memory_mu |-> PyFloat(2, 1), memory_sigma |-> PyFloat(1, 2),
                  memory_min |-> PyFloat(1, 1), memory_max |-> PyFloat(16, 1),
                  compute_mu |-> PyFloat(5, 1), compute_sigma |-> PyFloat(1, 2),
                  compute_min |-> PyFloat(1, 1),
                  compute_max |-> PyFloat(32, 1)]).value,
   workload |-> Construct(WorkloadConfig,
                 [model_type |-> Member("SMALL"),
                  initial_sequence_lengths |->
                    ListVal(<<PyInt(128), PyInt(256), PyInt(512)>>),
                  generation_steps |->
                    ListVal(<<PyInt(32), PyInt(64), PyInt(128)>>)]).value,
   algorithm |-> Construct(AlgorithmConfig, EmptyMap).value,
   experiment |-> Construct(ExperimentConfig,
                 [name |-> S("default_experiment"),
                  description |-> S("Default experiment configuration")]).value]

\* the object for a configuration given by value: its lists are new objects
NewConfig(h, cv) ==
  LET asTree == DictVal([s \in DOMAIN cv |->
                   IF IsSection(cv[s]) THEN DictVal(cv[s]) ELSE cv[s]])
      r == Store(h, asTree)
      top == r.h[r.v.a].map
      attrs == Table([s \in DOMAIN cv |->
                  IF IsSection(cv[s]) THEN r.h[top[s].a].map ELSE cv[s]])
      lists == {a \in DOMAIN r.h : r.h[a].kind = "list"}
      h1 == Restrict(r.h, DOMAIN h \cup lists)
  IN [h |-> Alloc(h1, NextAddr(r.h), ConfigObj(attrs)),
      v |-> ObjRef(NextAddr(r.h))]

Attrs(h, c) == h[c.a].attrs

ConfigOf(h, c) == ConfigValue(h, Attrs(h, c))

Idle == [op |-> "idle", arg |-> None, out |-> None]

InitialHeap ==
  LET c == NewConfig(<<>>, create_default_config)
  IN Alloc(c.h, NextAddr(c.h), DictObj(EmptyMap))

\* a YAML file written by hand under the .yml suffix
InitialFs ==
  [dirs |-> {"."},
   files |-> [p \in {Path(".", "config", ".yml")} |->
                LET d == to_dict(InitialHeap,
                           Attrs(InitialHeap, ObjRef(NextAddr(InitialHeap) - 2)))
                IN yaml_safe_dump(Snapshot(d.h, d.out.value))]]

Init ==
  /\ heap = InitialHeap
  /\ base = ObjRef(NextAddr(InitialHeap) - 2)
  /\ overrides = DictRef(NextAddr(InitialHeap) - 1)
  /\ fs = InitialFs
  /\ last = Idle

\* what is still referenced after a call
Collect(h, out) ==
  Restrict(h, Reach(h, {base.a, overrides.a}
                        \cup (IF out.kind = "return" /\ IsRef(out.value)
                                THEN {out.value.a} ELSE {})))

\* values a caller may give a field, all of the field's declared type
TypedEdits ==
  {<<"network", "topology_type", S("distributed_edge")>>,
   <<"network", "seed", PyInt(42)>>,
   <<"resources", "memory_mu", PyFloat(-1, 1)>>,
   <<"resources", "memory_sigma", PyFloat(0, 1)>>,
   <<"resources", "compute_mu", PyFloat(0, 1)>>,
   <<"resources", "compute_sigma", PyFloat(-1, 2)>>,
   <<"resources", "seed", PyInt(0)>>,
   <<"workload", "model_type", Member("LARGE")>>,
   <<"workload", "seed", PyInt(-1)>>,
   <<"algorithm", "cache_placement_strategy", S("on")>>,
   <<"algorithm", "enable_dynamic_adjustment", PyBool(FALSE)>>,
   <<"experiment", "name", S("null")>>,
   <<"experiment", "description", PyStr(Digits(123))>>,
   <<"experiment", "metrics_output_dir", PyStr(Decimal(1, 2))>>,
   <<"experiment", "save_intermediate", PyBool(TRUE)>>}
  \cup {<<"network", "num_devices", PyInt(n)>> : n \in {-1, 0, 1}}
  \cup {<<"network", "min_bandwidth", v>> :
          v \in {PyFloat(0, 1), PyFloat(10, 1), PyFloat(20, 1)}}
  \cup {<<"network", "max_bandwidth", v>> :
          v \in {PyFloat(0, 1), PyFloat(1, 2), PyFloat(1, 1)}}
  \cup {<<"network", "edge_probability", v>> :
          v \in {PyFloat(0, 1), PyFloat(1, 1), PyFloat(3, 2), PyFloat(-1, 2)}}
  \cup {<<"resources", f, v>> :
          f \in {"memory_min", "compute_min"},
          v \in {PyFloat(0, 1), PyFloat(16, 1), PyFloat(32, 1), PyFloat(64, 1)}}
  \cup {<<"resources", f, v>> :
          f \in {"memory_max", "compute_max"},
          v \in {PyFloat(-1, 1), PyFloat(1, 2), PyFloat(1, 1)}}
  \cup {<<"workload", f, ListVal(xs)>> :
          f \in {"initial_sequence_lengths", "generation_steps"},
          xs \in {<<>>, <<PyInt(0)>>, <<PyInt(64), PyInt(-1)>>, <<PyInt(1)>>}}
  \cup {<<"workload", "precision_bytes", PyInt(n)>> : n \in {-1, 0, 1}}
  \cup {<<"algorithm", "migration_threshold", v>> :
          v \in {PyFloat(0, 1), PyFloat(1, 1), PyFloat(3, 2), PyFloat(-1, 2)}}
  \cup {<<"algorithm", "backtrack_limit", PyInt(n)>> : n \in {0, 1}}
  \cup {<<"experiment", f, PyInt(n)>> :
          f \in {"num_runs", "checkpoint_interval"}, n \in {-1, 0, 3}}
  \cup {<<"experiment", "time_limit", v>> :
          v \in {PyFloat(0, 1), PyFloat(-1, 1), PyFloat(100, 1)}}

\* fields of the validator's tests left unset, None, or of a type that cannot
\* be compared; a whole section that is None
UntypedEdits ==
  {<<s, f, v>> :
     s \in SectionNames,
     f \in {"num_devices", "min_bandwidth", "max_bandwidth", "edge_probability",
            "memory_min", "memory_max", "compute_min", "compute_max",
            "initial_sequence_lengths", "generation_steps", "precision_bytes",
            "migration_threshold", "backtrack_limit", "num_runs",
            "checkpoint_interval", "time_limit"},
     v \in {None, Absent, S("x")}}
  \cup {<<"workload", f, v>> :
          f \in {"initial_sequence_lengths", "generation_steps"},
          v \in {ListVal(<<PyInt(1), None>>), PyInt(5)}}
  \cup {<<s, "*", None>> : s \in SectionNames}

\* config.<s>.<f> = v; a list given by value becomes a new list object
SetAttr(h, c, s, f, v) ==
  LET r == Store(h, v)
      old == r.h[c.a].attrs[s]
      new == IF f = "*" THEN v
             ELSE IF v = Absent THEN Table([x \in DOMAIN old \ {f} |-> old[x]])
             ELSE [old EXCEPT ![f] = r.v]
  IN [r.h EXCEPT ![c.a].attrs[s] = new]

\* the objects the inputs hold; the result of the call before is dropped
Inputs == Restrict(heap, Reach(heap, {base.a, overrides.a}))

\* how many fields (or whole sections) differ from the default configuration
EditCount(h, c) ==
  LET cv == ConfigOf(h, c)
  IN Cardinality({s \in SectionNames : ~IsSection(cv[s])})
     + Cardinality({x \in SectionNames \X UNION {SimulationConfig[s].fields : s \in SectionNames} :
                      /\ x[2] \in SimulationConfig[x[1]].fields
                      /\ IsSection(cv[x[1]])
                      /\ \/ x[2] \notin DOMAIN cv[x[1]]
                         \/ cv[x[1]][x[2]] # create_default_config[x[1]][x[2]]})

\* a caller sets one more field of the configuration before using it
Edit(edits, bound) ==
  /\ last = Idle
  /\ EditCount(heap, base) < bound
  /\ \E e \in edits :
       /\ e[2] = "*" \/ e[2] \in SimulationConfig[e[1]].fields
       /\ IsSection(Attrs(heap, base)[e[1]])
       /\ e[2] # "*" => /\ e[2] \in DOMAIN Attrs(heap, base)[e[1]]
                        /\ ConfigOf(heap, base)[e[1]][e[2]]
                             = create_default_config[e[1]][e[2]]
       /\ heap' = Collect(SetAttr(heap, base, e[1], e[2], e[3]), Return(None))
  /\ UNCHANGED <<base, overrides, fs, last>>

-----------------------------------------------------------------------------
(* The validator on configurations of any shape *)

MaxEdits == 2

EditAny == Edit(TypedEdits \cup UntypedEdits, MaxEdits)

Validate ==
  /\ last' = [op |-> "validate", arg |-> None,
              out |-> validate_config(heap, Attrs(heap, base))]
  /\ heap' = Inputs
  /\ UNCHANGED <<base, overrides, fs>>

NextValidator == EditAny \/ Validate

SpecValidator == Init /\ [][NextValidator]_vars

(* Validator properties *)

IsInt(v) == v.t = "int"

IsFloat(v) == v.t \in {"float", "inf", "int"}

IsText(v) == v.t = "str"

IsFlag(v) == v.t = "bool"

IsSeed(v) == v.t \in {"none", "int"}

IsIntList(v) == v.t = "listval" /\ \A i \in 1..Len(v.items) : IsInt(v.items[i])

\* every field holds a value of its declared type
WellTyped(cv) ==
  /\ \A s \in SectionNames :
       IsSection(cv[s]) /\ DOMAIN cv[s] = SimulationConfig[s].fields
  /\ IsText(cv.network.topology_type) /\ IsInt(cv.network.num_devices)
  /\ IsFloat(cv.network.min_bandwidth) /\ IsFloat(cv.network.max_bandwidth)
  /\ IsFloat(cv.network.edge_probability) /\ IsSeed(cv.network.seed)
  /\ \A f \in ResourceConfig.fields \ {"seed"} : IsFloat(cv.resources[f])
  /\ IsSeed(cv.resources.seed)
  /\ cv.workload.model_type.t = "enum"
  /\ cv.workload.model_type.name \in WorkloadType
  /\ IsIntList(cv.workload.initial_sequence_lengths)
  /\ IsIntList(cv.workload.generation_steps)
  /\ IsInt(cv.workload.precision_bytes) /\ IsSeed(cv.workload.seed)
  /\ IsFloat(cv.algorithm.migration_threshold)
  /\ IsInt(cv.algorithm.backtrack_limit)
  /\ IsText(cv.algorithm.cache_placement_strategy)
  /\ IsFlag(cv.algorithm.enable_dynamic_adjustment)
  /\ IsText(cv.experiment.name) /\ IsText(cv.experiment.description)
  /\ IsInt(cv.experiment.num_runs) /\ IsInt(cv.experiment.checkpoint_interval)
  /\ IsFloat(cv.experiment.time_limit)
  /\ IsText(cv.experiment.metrics_output_dir)
  /\ IsFlag(cv.experiment.save_intermediate)

NonPositive(v) == NumLe(v, PyInt(0))

Exceeds(a, b) == ~NumLe(a, b)

InUnitInterval(v) == NumLe(PyInt(0), v) /\ NumLe(v, PyInt(1))

BadSequence(v) == v.items = <<>> \/ \E i \in 1..Len(v.items) : NonPositive(v.items[i])

\* at least one invariant of the data model is violated
Violated(cv) ==
  \/ Exceeds(cv.network.min_bandwidth, cv.network.max_bandwidth)
  \/ Exceeds(cv.resources.memory_min, cv.resources.memory_max)
  \/ Exceeds(cv.resources.compute_min, cv.resources.compute_max)
  \/ \E v \in {cv.network.num_devices, cv.network.min_bandwidth,
               cv.network.max_bandwidth, cv.resources.memory_min,
               cv.resources.memory_max, cv.resources.compute_min,
               cv.resources.compute_max, cv.workload.precision_bytes,
               cv.algorithm.backtrack_limit, cv.experiment.num_runs,
               cv.experiment.checkpoint_interval, cv.experiment.time_limit} :
        NonPositive(v)
  \/ ~InUnitInterval(cv.network.edge_probability)
  \/ ~InUnitInterval(cv.algorithm.migration_threshold)
  \/ BadSequence(cv.workload.initial_sequence_lengths)
  \/ BadSequence(cv.workload.generation_steps)

\* C3: for a well-typed configuration, validate returns false exactly when
\* some invariant of the data model is violated (a range with min > max, a
\* positive quantity <= 0, a probability outside [0,1], an empty sequence or
\* one with a non-positive element)
C3_ValidateIffNoViolation ==
  (last.op = "validate" /\ WellTyped(ConfigOf(heap, base)))
    => /\ last.out.kind = "return"
       /\ (last.out.value = PyBool(FALSE)) <=> Violated(ConfigOf(heap, base))

\* validate has rejected a configuration whose bandwidth range is the
\* boundary min == max and whose only violation is the time limit, the test
\* checked last
C3_Witness ==
  /\ last.op = "validate" /\ WellTyped(ConfigOf(heap, base))
  /\ last.out = Return(PyBool(FALSE))
  /\ ConfigOf(heap, base).network.min_bandwidth
       = ConfigOf(heap, base).network.max_bandwidth
  /\ NonPositive(ConfigOf(heap, base).experiment.time_limit)
  /\ ~Violated([ConfigOf(heap, base) EXCEPT !.experiment.time_limit = Inf])

\* C4: validate always returns a boolean, and returns false when a test
\* raises (a field that is absent, None or cannot be compared)
C4_ValidateNeverRaises ==
  last.op = "validate"
    => /\ last.out.kind = "return"
       /\ last.out.value \in {PyBool(TRUE), PyBool(FALSE)}
       /\ ValidateBody(heap, Attrs(heap, base)).kind = "raise"
            => last.out.value = PyBool(FALSE)

\* validate has returned after one of its tests raised
C4_Witness ==
  /\ last.op = "validate"
  /\ ValidateBody(heap, Attrs(heap, base)).kind = "raise"
  /\ last.out = Return(PyBool(FALSE))

-----------------------------------------------------------------------------
(* Dictionary codec on generic trees, whole or damaged *)

MaxCodecEdits == 1

EditCodec == Edit(TypedEdits, MaxCodecEdits)

Whole == [k |-> "whole"]

\* what can be wrong with the shape of a generic tree handed to from_dict
TreeDamages ==
  {Whole}
  \cup {[k |-> "del_section", s |-> s] : s \in SectionNames}
  \cup {[k |-> "del_field", s |-> s, f |-> f] :
          s \in SectionNames,
          f \in UNION {SimulationConfig[x].fields : x \in SectionNames}}
  \cup {[k |-> "set_field", s |-> "workload", f |-> "model_type", v |-> v] :
          v \in {S("NONEXISTENT"), S("workload"), S("small"), S("MEDIUM")}}
  \cup {[k |-> "set_field", s |-> s, f |-> "bogus", v |-> PyInt(1)] :
          s \in SectionNames}

Damage(h, root, dmg) ==
  LET sec == h[root.a].map[dmg.s].a
  IN IF dmg.k = "whole" THEN h
     ELSE IF dmg.k = "del_section"
       THEN [h EXCEPT ![root.a].map =
               Table([x \in DOMAIN @ \ {dmg.s} |-> @[x]])]
     ELSE IF dmg.k = "del_field"
       THEN [h EXCEPT ![sec].map = Table([x \in DOMAIN @ \ {dmg.f} |-> @[x]])]
     ELSE [h EXCEPT ![sec].map = Put(@, dmg.f, dmg.v)]

\* SimulationConfig.from_dict on the tree that to_dict gives for the
\* configuration, whole or damaged
Decode(h, c, dmg) ==
  LET d == to_dict(h, c)
      h1 == Damage(d.h, d.out.value, dmg)
  IN IF d.out.kind = "raise" THEN [h |-> h, out |-> d.out]
     ELSE New(h1, from_dict(h1, d.out.value))

FromDict ==
  \E dmg \in TreeDamages :
    /\ last = Idle
    /\ dmg.k = "del_field" => dmg.f \in SimulationConfig[dmg.s].fields
    /\ LET r == Decode(Inputs, Attrs(heap, base), dmg)
       IN /\ last' = [op |-> "from_dict", arg |-> dmg, out |-> r.out]
          /\ heap' = Collect(r.h, r.out)
    /\ UNCHANGED <<base, overrides, fs>>

NextCodec == EditCodec \/ FromDict

SpecCodec == Init /\ [][NextCodec]_vars

-----------------------------------------------------------------------------
(* File codec *)

MaxFileEdits == 1

\* the edits that matter to the file formats: every kind of scalar, the
\* strings a YAML reader could take for something else, the lists
FileEdits ==
  {e \in TypedEdits :
     \/ e[2] \in {"topology_type", "seed", "model_type", "memory_mu",
                  "cache_placement_strategy", "enable_dynamic_adjustment",
                  "name", "description", "metrics_output_dir",
                  "save_intermediate", "initial_sequence_lengths"}
     \/ e[3] \in {PyInt(1), PyInt(3), PyFloat(1, 1), PyFloat(100, 1)}}

EditFile == Edit(FileEdits, MaxFileEdits)

Paths == {Path(".", "config", ".yaml"), Path(".", "config", ".json"),
          Path(".", "config", ".yml"), Path("out", "config", ".txt")}

Save ==
  \E p \in Paths :
    LET r == save_config(heap, fs, Attrs(heap, base), p)
    IN /\ fs' = r.fs
       /\ last' = [op |-> "save", arg |-> p, out |-> r.out]
       /\ heap' = Inputs
       /\ UNCHANGED <<base, overrides>>

Load ==
  \E p \in Paths \cup {Path(".", "missing", ".txt")} :
    LET r == load_config(Inputs, fs, p)
    IN /\ last' = [op |-> "load", arg |-> p, out |-> r.out]
       /\ heap' = Collect(r.h, r.out)
       /\ UNCHANGED <<base, overrides, fs>>

NextFile == EditFile \/ Save \/ Load

SpecFile == Init /\ [][NextFile]_vars

-----------------------------------------------------------------------------
(* Codec properties *)

Valid(h, c) == validate_config(h, Attrs(h, c)) = Return(PyBool(TRUE))

Supported == {".yaml", ".json"}

\* C1: for a valid configuration and each of the two formats, load after
\* save gives a configuration equal field for field.  (A file with a
\* supported suffix exists only once save has written it, and the
\* configuration is not edited after the first call.)
C1_SaveLoadRoundTrip ==
  (/\ last.op = "load" /\ last.arg.suffix \in Supported
   /\ last.arg \in DOMAIN fs.files /\ Valid(heap, base))
    => /\ last.out.kind = "return"
       /\ ConfigOf(heap, last.out.value) = ConfigOf(heap, base)

\* a YAML file has been saved and loaded for a configuration with the
\* default infinite time limit, no seeds and a name that reads as null
C1_Witness ==
  /\ last.op = "load" /\ last.arg.suffix = ".yaml" /\ Valid(heap, base)
  /\ last.out.kind = "return"
  /\ ConfigOf(heap, base).experiment.time_limit = Inf
  /\ ConfigOf(heap, base).network.seed = None
  /\ ConfigOf(heap, base).experiment.name = S("null")
  /\ Len(ConfigOf(heap, last.out.value).workload.generation_steps.items) = 3

\* the tree that to_dict gives for the configuration
Encoded(h, c) ==
  LET d == to_dict(Restrict(h, Reach(h, {c.a})), Attrs(h, c))
  IN Snapshot(d.h, d.out.value)

\* C2: for a valid configuration, from_dict(to_dict(c)) equals c in all five
\* sections; model_type travels as its name and comes back as the member
C2_DictRoundTrip ==
  (last.op = "from_dict" /\ last.arg = Whole /\ Valid(heap, base))
    => /\ last.out.kind = "return"
       /\ ConfigOf(heap, last.out.value) = ConfigOf(heap, base)
       /\ Encoded(heap, base).map.workload.map.model_type
            = S(Attrs(heap, base).workload.model_type.name)

\* the round trip has been made for a configuration of the LARGE category
C2_Witness ==
  /\ last.op = "from_dict" /\ last.arg = Whole /\ Valid(heap, base)
  /\ last.out.kind = "return"
  /\ Attrs(heap, last.out.value).workload.model_type = Member("LARGE")

\* C9 as stated: .yaml, .yml and .json are accepted and every other suffix
\* fails with UnsupportedFormat
C9_Original ==
  /\ last.op = "save"
       => (last.out # UnsupportedFormat
             <=> last.arg.suffix \in {".yaml", ".yml", ".json"})
  /\ (last.op = "load" /\ last.arg \in DOMAIN fs.files)
       => (last.out # UnsupportedFormat
             <=> last.arg.suffix \in {".yaml", ".yml", ".json"})

\* C9 amended: exactly .yaml and .json are accepted; save writes the file in
\* the format of the suffix and load reads it in that format; any other
\* suffix, .yml included, fails with UnsupportedFormat (load: once the file
\* exists; a missing file is FileNotFound whatever the suffix)
C9_SuffixSelectsFormat ==
  /\ last.op = "save"
       => /\ last.arg.suffix = ".yaml"
               => /\ last.out = Return(None)
                  /\ fs.files[last.arg] = yaml_safe_dump(Encoded(heap, base))
          /\ last.arg.suffix = ".json"
               => /\ last.out = Return(None)
                  /\ fs.files[last.arg] = json_dump(Encoded(heap, base))
          /\ last.arg.suffix \notin Supported => last.out = UnsupportedFormat
  /\ last.op = "load"
       => /\ last.arg \notin DOMAIN fs.files
               => last.out.kind = "raise" /\ last.out.exc = "FileNotFoundError"
          /\ (last.arg \in DOMAIN fs.files /\ last.arg.suffix \in Supported)
               => /\ last.out.kind = "return"
                  /\ ConfigOf(heap, last.out.value) = ConfigOf(heap, base)
          /\ (last.arg \in DOMAIN fs.files /\ last.arg.suffix \notin Supported)
               => last.out = UnsupportedFormat

\* load has refused an existing YAML file because its suffix is .yml
C9_Witness ==
  /\ last.op = "load" /\ last.arg.suffix = ".yml"
  /\ last.arg \in DOMAIN fs.files /\ fs.files[last.arg] # EmptyFile
  /\ last.out = UnsupportedFormat

Required(s) == SimulationConfig[s].fields \ DOMAIN SimulationConfig[s].defaults

IsMissingField(dmg) ==
  \/ dmg.k = "del_section"
  \/ dmg.k = "del_field" /\ dmg.f \in Required(dmg.s)

IsUnknownName(dmg) ==
  /\ dmg.k = "set_field" /\ dmg.f = "model_type"
  /\ ~(dmg.v.s.cls = "word" /\ dmg.v.s.w \in WorkloadType)

\* C10: from_dict never returns a configuration for a tree with an unknown
\* workload-model name or with a section or required field missing, and the
\* kind of failure for a missing section or field differs from the kind for
\* an unknown name
C10_DistinctErrorKinds ==
  last.op = "from_dict"
    => /\ IsUnknownName(last.arg) => last.out.kind = "raise"
       /\ IsMissingField(last.arg)
            => /\ last.out.kind = "raise"
               /\ \A dmg \in {x \in TreeDamages : IsUnknownName(x)} :
                    Decode(Inputs, Attrs(heap, base), dmg).out.exc # last.out.exc

-----------------------------------------------------------------------------
(* Merge engine on a base configuration and an override mapping *)

MaxMergeEdits == 1

MaxOverrideLeaves == 1

\* the base configurations of the merges: the default with some of these set
MergeEdits ==
  {e \in FileEdits :
     e[2] \in {"seed", "num_devices", "model_type", "initial_sequence_lengths",
               "enable_dynamic_adjustment", "name"}}

EditBase == Edit(MergeEdits, MaxMergeEdits)

\* what an override mapping may hold: a value for each field, with model_type
\* by name; a list of any length for a sequence field; and the ill-formed:
\* an unknown name, an unknown key, a section that is empty or not a mapping
OverrideEntries ==
  {<<e[1], e[2], IF e[3].t = "enum" THEN S(e[3].name) ELSE e[3]>> :
     e \in {e \in TypedEdits :
              \/ e \in FileEdits
              \/ <<e[2], e[3]>> \in {<<"min_bandwidth", PyFloat(10, 1)>>,
                                     <<"memory_min", PyFloat(16, 1)>>,
                                     <<"compute_min", PyFloat(16, 1)>>,
                                     <<"memory_sigma", PyFloat(0, 1)>>,
                                     <<"compute_mu", PyFloat(0, 1)>>,
                                     <<"compute_sigma", PyFloat(-1, 2)>>,
                                     <<"num_devices", PyInt(0)>>,
                                     <<"max_bandwidth", PyFloat(1, 2)>>,
                                     <<"edge_probability", PyFloat(3, 2)>>,
                                     <<"time_limit", PyFloat(-1, 1)>>}}}
  \cup {<<"workload", f, ListVal(xs)>> :
          f \in {"initial_sequence_lengths", "generation_steps"},
          xs \in {<<PyInt(7), PyInt(8), PyInt(9)>>,
                  <<PyInt(16), PyInt(32), PyInt(64), PyInt(128)>>}}
  \cup {<<"workload", "model_type", S("NONEXISTENT")>>,
        <<"network", "bogus", PyInt(1)>>,
        <<"bogus", "num_devices", PyInt(4)>>,
        <<"network", "*", PyInt(1)>>,
        <<"algorithm", "*", DictVal(EmptyMap)>>}

\* the entries of the override mapping, an empty or non-mapping section
\* counting as one
OverrideLeaves(h, o) ==
  UNION {IF h[o.a].map[s].t = "dict" /\ DOMAIN h[h[o.a].map[s].a].map # {}
           THEN {<<s, f>> : f \in DOMAIN h[h[o.a].map[s].a].map}
           ELSE {<<s, "*">>} :
         s \in DOMAIN h[o.a].map}

\* overrides[s][f] = v, or overrides[s] = v for the field "*"
SetOverride(h, o, s, f, v) ==
  LET r == Store(h, v)
      root == r.h[o.a].map
      a == NextAddr(r.h)
  IN IF f = "*" THEN [r.h EXCEPT ![o.a].map = Put(@, s, r.v)]
     ELSE IF s \in DOMAIN root
       THEN [r.h EXCEPT ![root[s].a].map = Put(@, f, r.v)]
     ELSE [Alloc(r.h, a, DictObj(Put(EmptyMap, f, r.v)))
             EXCEPT ![o.a].map = Put(@, s, DictRef(a))]

\* a caller adds one more entry to the override mapping before the merge
EditOverrides ==
  /\ last = Idle
  /\ Cardinality(OverrideLeaves(heap, overrides)) < MaxOverrideLeaves
  /\ \E e \in OverrideEntries :
       /\ IF e[1] \notin DOMAIN heap[overrides.a].map THEN TRUE
          ELSE /\ e[2] # "*"
               /\ heap[overrides.a].map[e[1]].t = "dict"
               /\ e[2] \notin DOMAIN heap[heap[overrides.a].map[e[1]].a].map
       /\ heap' = Collect(SetOverride(heap, overrides, e[1], e[2], e[3]),
                          Return(None))
  /\ UNCHANGED <<base, overrides, fs, last>>

Merge ==
  /\ last = Idle
  /\ LET r == merge_configs(Inputs, Attrs(heap, base), overrides)
     IN /\ last' = [op |-> "merge", arg |-> None, out |-> r.out]
        /\ heap' = Collect(r.h, r.out)
  /\ UNCHANGED <<base, overrides, fs>>

NextMerge == EditBase \/ EditOverrides \/ Merge

SpecMerge == Init /\ [][NextMerge]_vars

-----------------------------------------------------------------------------
(* Merge properties *)

OverrideTree == Snapshot(heap, overrides).map

SequenceFields == {"initial_sequence_lengths", "generation_steps"}

\* the override mapping supplies one field of one section and nothing else,
\* with model_type, if that is the field, by a name of the registry
SingleLeaf(s, f) ==
  /\ DOMAIN OverrideTree = {s} /\ s \in SectionNames
  /\ OverrideTree[s].t = "dictval"
  /\ DOMAIN OverrideTree[s].map = {f} /\ f \in SimulationConfig[s].fields
  /\ f = "model_type" => /\ OverrideTree[s].map[f].t = "str"
                         /\ OverrideTree[s].map[f].s.cls = "word"
                         /\ OverrideTree[s].map[f].s.w \in WorkloadType

Typed(f, v) == IF f = "model_type" THEN Member(v.s.w) ELSE v

\* C5: merging the empty override mapping gives a configuration equal to base
C5_MergeEmptyIsIdentity ==
  (last.op = "merge" /\ DOMAIN OverrideTree = {})
    => /\ last.out.kind = "return"
       /\ ConfigOf(heap, last.out.value) = ConfigOf(heap, base)

\* the empty mapping has been merged into a base that is not the default
C5_Witness ==
  /\ last.op = "merge" /\ DOMAIN OverrideTree = {}
  /\ last.out.kind = "return"
  /\ ConfigOf(heap, base).network.seed = PyInt(42)

\* C6: an override of one field of one section gives that field the override
\* value and leaves every other field, of that section and of the other
\* four, as in base
C6_SingleLeafOverride ==
  last.op = "merge"
    => \A s \in SectionNames : \A f \in SimulationConfig[s].fields :
         SingleLeaf(s, f)
           => /\ last.out.kind = "return"
              /\ \A s2 \in SectionNames : \A f2 \in SimulationConfig[s2].fields :
                   ConfigOf(heap, last.out.value)[s2][f2]
                     = IF s2 = s /\ f2 = f
                         THEN Typed(f, OverrideTree[s].map[f])
                         ELSE ConfigOf(heap, base)[s2][f2]

\* {"network": {"num_devices": 4}}-like: num_devices alone has been
\* overridden on a base whose network seed is not the default
C6_Witness ==
  /\ last.op = "merge" /\ SingleLeaf("network", "num_devices")
  /\ last.out.kind = "return"
  /\ ConfigOf(heap, last.out.value).network.num_devices
       # ConfigOf(heap, base).network.num_devices
  /\ ConfigOf(heap, base).network.seed = PyInt(42)

\* C7: a list given for a workload sequence field is the merged sequence,
\* whole and alone; an override of nothing else does not fail
C7_SequenceReplaced ==
  last.op = "merge"
    => \A f \in SequenceFields :
         (/\ "workload" \in DOMAIN OverrideTree
          /\ OverrideTree.workload.t = "dictval"
          /\ f \in DOMAIN OverrideTree.workload.map
          /\ OverrideTree.workload.map[f].t = "listval")
           => /\ SingleLeaf("workload", f) => last.out.kind = "return"
              /\ last.out.kind = "return"
                   => ConfigOf(heap, last.out.value).workload[f]
                        = OverrideTree.workload.map[f]

\* a list of four has replaced the base list of three
C7_Witness ==
  /\ last.op = "merge" /\ last.out.kind = "return"
  /\ SingleLeaf("workload", "initial_sequence_lengths")
  /\ Len(ConfigOf(heap, base).workload.initial_sequence_lengths.items) = 3
  /\ Len(ConfigOf(heap, last.out.value).workload.initial_sequence_lengths.items) = 4

\* C8: a merge, returning or failing, leaves the base configuration and the
\* override mapping as they were, every object they hold included, and a
\* returned configuration is a new object
C8_MergeKeepsInputs ==
  [][(last.op = "idle" /\ last'.op = "merge")
       => /\ base' = base /\ overrides' = overrides
          /\ \A a \in DOMAIN Inputs : a \in DOMAIN heap' /\ heap'[a] = heap[a]
          /\ last'.out.kind = "return" => last'.out.value.a \notin DOMAIN Inputs]_vars

\* a merge has returned for an override that gives a list for a sequence
\* field, the base list being shared with the tree the merge works on
C8_Witness ==
  /\ last.op = "merge" /\ last.out.kind = "return"
  /\ SingleLeaf("workload", "generation_steps")
  /\ last.out.value # base
  /\ Attrs(heap, last.out.value).workload.initial_sequence_lengths
       = Attrs(heap, base).workload.initial_sequence_lengths

-----------------------------------------------------------------------------
(* The default configuration, asked for again after the first one was used *)

MaxDefaultEdits == 1

MaxAppends == 1

EditDefault == Edit(TypedEdits, MaxDefaultEdits)

\* config.workload.<f>.append(x): the list object itself changes
AppendItem ==
  /\ last = Idle
  /\ \E f \in SequenceFields :
       LET v == Attrs(heap, base).workload[f]
           x == PyInt(0)
       IN /\ v.t = "list"
          /\ Len(heap[v.a].items)
               < Len(create_default_config.workload[f].items) + MaxAppends
          /\ heap' = [heap EXCEPT ![v.a].items = Append(@, x)]
  /\ UNCHANGED <<base, overrides, fs, last>>

\* a further call of create_default_config()
Default ==
  /\ last = Idle
  /\ LET r == NewConfig(Inputs, create_default_config)
     IN /\ last' = [op |-> "default", arg |-> None, out |-> Return(r.v)]
        /\ heap' = Collect(r.h, Return(r.v))
  /\ UNCHANGED <<base, overrides, fs>>

NextDefault == EditDefault \/ AppendItem \/ Default

SpecDefault == Init /\ [][NextDefault]_vars

\* C11: every call of create_default_config gives a configuration that
\* validate_config accepts, with num_devices 8, min_bandwidth 1.0 and
\* max_bandwidth 10.0, equal to the one the first call gave whatever was
\* done to that one since
C11_DefaultIsValid ==
  last.op = "default"
    => /\ last.out.kind = "return"
       /\ validate_config(heap, Attrs(heap, last.out.value)) = Return(PyBool(TRUE))
       /\ ConfigOf(heap, last.out.value).network.num_devices = PyInt(8)
       /\ ConfigOf(heap, last.out.value).network.min_bandwidth = PyFloat(1, 1)
       /\ ConfigOf(heap, last.out.value).network.max_bandwidth = PyFloat(10, 1)
       /\ ConfigOf(heap, last.out.value)
            = ConfigOf(InitialHeap, ObjRef(NextAddr(InitialHeap) - 2))

\* a second call has been made after the first configuration had an item
\* appended to one of its lists and is no longer valid
C11_Witness ==
  /\ last.op = "default" /\ last.out.kind = "return"
  /\ last.out.value # base
  /\ ~Valid(heap, base)
  /\ Len(ConfigOf(heap, base).workload.generation_steps.items) = 4
  /\ Len(ConfigOf(heap, last.out.value).workload.generation_steps.items) = 3

-----------------------------------------------------------------------------
(* Merging, then validating what the merge returned *)

\* validate_config(merged) once merge_configs has returned
ValidateMerged ==
  /\ last.op = "merge" /\ last.out.kind = "return"
  /\ last' = [op |-> "validate", arg |-> last.out.value,
              out |-> validate_config(heap, Attrs(heap, last.out.value))]
  /\ UNCHANGED <<heap, base, overrides, fs>>

NextMergeValidate == EditBase \/ EditOverrides \/ Merge \/ ValidateMerged

SpecMergeValidate == Init /\ [][NextMergeValidate]_vars

\* base with the one field set as the override says breaks a rule of the
\* validator
Invalidating(s, f) ==
  Violated([ConfigOf(heap, base) EXCEPT ![s][f] = Typed(f, OverrideTree[s].map[f])])

\* C12: for a valid base and an override of one field by a value that breaks
\* a rule of the validator, merge_configs returns a configuration with
\* exactly that value in the field, and validate_config on this result
\* returns False
C12_MergeDoesNotValidate ==
  \A s \in SectionNames : \A f \in SimulationConfig[s].fields :
    (SingleLeaf(s, f) /\ Valid(heap, base) /\ Invalidating(s, f))
      => /\ last.op = "merge"
              => /\ last.out.kind = "return"
                 /\ ConfigOf(heap, last.out.value)[s][f]
                      = Typed(f, OverrideTree[s].map[f])
         /\ last.op = "validate"
              => /\ ConfigOf(heap, last.arg)[s][f]
                      = Typed(f, OverrideTree[s].map[f])
                 /\ last.out = Return(PyBool(FALSE))

\* {"network": {"max_bandwidth": 0.5}} has been merged into the default
\* configuration, whose min_bandwidth is 1.0, and the result validated
C12_Witness ==
  /\ last.op = "validate" /\ last.out = Return(PyBool(FALSE))
  /\ SingleLeaf("network", "max_bandwidth") /\ Valid(heap, base)
  /\ ConfigOf(heap, last.arg).network.max_bandwidth = PyFloat(1, 2)
  /\ ConfigOf(heap, last.arg).network.min_bandwidth = PyFloat(1, 1)

-----------------------------------------------------------------------------
(* What a refused save leaves behind *)

\* C13: a save that fails with UnsupportedFormat creates no file and no
\* directory and leaves the content of a file already at the path as it was
C13_FailedSaveLeavesFs ==
  [][(last'.op = "save" /\ last'.out = UnsupportedFormat)
       => /\ fs'.dirs = fs.dirs
          /\ DOMAIN fs'.files = DOMAIN fs.files
          /\ \A p \in DOMAIN fs.files : fs'.files[p] = fs.files[p]]_vars

====
